---- MODULE Spec2Model ----
(***************************************************************************)
(* A model of randperm-crt: the prime-power factorizer, the Chinese        *)
(* Remainder combiner, the CRT permutation with its Inverse and            *)
(* Composition views, and the permutation iterator.                        *)
(*                                                                         *)
(* Vec<T> is a TLA+ sequence; the code's 0-based index i is position i+1.  *)
(* Option<T> is the record None or [some |-> TRUE, v |-> value].           *)
(***************************************************************************)
EXTENDS Integers, Sequences, FiniteSets, TLC

VARIABLES
    overflow_checks, \* the build: TRUE = overflow checks on (debug), FALSE = wrapping (release)
    fin,             \* FactoredInteger::new: the argument n as passed
    fn,              \* FactoredInteger::new: the local `n` (the residual)
    factors,         \* FactoredInteger::new: the local `factors`
    fp,              \* FactoredInteger::new: the loop variable `p`
    counter,         \* FactoredInteger::new: the local `counter`
    fpc,             \* FactoredInteger::new: the position in the function
    fret,            \* FactoredInteger::new: the returned Option<FactoredInteger>
    crt_args,        \* chinese_remainder: the arguments of the call
    crt_ret,         \* chinese_remainder: the outcome of the call
    pool,            \* the RandomPermutation values the caller holds (p1, p2)
    last,            \* the last lookup call on a Permutation variant and what it returned
    iters,           \* the PermutationIter cursors the caller holds
    status           \* the calling thread: "running", "panicked", or "hung" in a call that never returns

factorVars == <<fin, fn, factors, fp, counter, fpc, fret>>
crtVars == <<crt_args, crt_ret>>
permVars == <<pool, last>>
iterVars == <<iters>>
vars == <<overflow_checks, factorVars, crtVars, permVars, iterVars, status>>

----------------------------------------------------------------------------
(* Option<T> and the outcomes of a call.                                   *)

None == [some |-> FALSE]
Some(x) == [some |-> TRUE, v |-> x]
\* a call that unwinds instead of returning (arithmetic overflow with checks
\* on, division by zero, unwrap on None)
Panic == [panic |-> TRUE]
Returned(x) == [panic |-> FALSE, ret |-> x]

----------------------------------------------------------------------------
(* Machine integers.  u64 and i128 are modelled at a reduced width: a word *)
(* has WordBits bits and the widened signed intermediate twice as many.    *)

WordBits == 8

RECURSIVE Pow(_, _)
Pow(b, e) == IF e = 0 THEN 1 ELSE b * Pow(b, e - 1)

WordMod == Pow(2, WordBits)
\* u64::MAX
WordMax == WordMod - 1
Word == 0..WordMax
\* i128::MAX and i128::MIN
WideMax == Pow(2, 2 * WordBits - 1) - 1
WideMin == 0 - Pow(2, 2 * WordBits - 1)
WideMod == Pow(2, 2 * WordBits)

InWide(x) == WideMin <= x /\ x <= WideMax

\* two's-complement wrap of x into the i128 range
WrapWide(x) ==
    LET m == x % WideMod
    IN  IF m > WideMax THEN m - WideMod ELSE m

Abs(x) == IF x < 0 THEN 0 - x ELSE x

\* Rust's `/` and `%` on signed integers truncate toward zero (b # 0)
TruncDiv(a, b) ==
    IF (a < 0) = (b < 0) THEN Abs(a) \div Abs(b) ELSE 0 - (Abs(a) \div Abs(b))

TruncRem(a, b) == a - b * TruncDiv(a, b)

----------------------------------------------------------------------------
(* FactoredInteger::new, step by step (src/src/lib.rs:21-53).              *)

\* u64::BITS
U64Bits == 64
\* u8::MAX, the exclusive end of the trial-division range 3..u8::MAX
U8Max == 255
\* the largest argument the factorizer is run on
MaxFactorN == 530

RECURSIVE TrailingZerosFrom(_, _)
TrailingZerosFrom(n, acc) ==
    IF n % 2 = 1 THEN acc ELSE TrailingZerosFrom(n \div 2, acc + 1)

\* u64::trailing_zeros: the width of the word when n = 0
TrailingZeros(n) == IF n = 0 THEN U64Bits ELSE TrailingZerosFrom(n, 0)

\* n >> s for s < U64Bits
Shr(n, s) == n \div Pow(2, s)

FactorInit ==
    /\ fin \in 0..MaxFactorN
    /\ fn = fin
    /\ factors = <<>>
    /\ fp = 3
    /\ counter = 0
    /\ fpc = "strip2"
    /\ fret = None

\* lines 24-28: strip the factor 2 by counting trailing zero bits
StripTwo ==
    /\ fpc = "strip2"
    /\ status = "running"
    /\ LET pow2 == TrailingZeros(fn)
       IN  IF pow2 = 0
           THEN /\ fpc' = "for"
                /\ UNCHANGED <<fn, factors, status>>
           ELSE IF pow2 >= U64Bits /\ overflow_checks
           THEN \* `n >>= pow2` with pow2 = 64: attempt to shift right with overflow
                /\ status' = "panicked"
                /\ fpc' = "panic"
                /\ UNCHANGED <<fn, factors>>
           ELSE \* without the check the shift amount is masked to the word's bits
                /\ fn' = Shr(fn, pow2 % U64Bits)
                /\ factors' = Append(factors, <<2, pow2>>)
                /\ fpc' = "for"
                /\ UNCHANGED status
    /\ UNCHANGED <<fin, fp, counter, fret>>

\* line 30-33: the head of `for p in (3..u8::MAX).step_by(2)`
ForHead ==
    /\ fpc = "for"
    /\ status = "running"
    /\ IF fp < U8Max
       THEN /\ counter' = 0
            /\ fpc' = "while"
       ELSE /\ fpc' = "ret"
            /\ UNCHANGED counter
    /\ UNCHANGED <<fin, fn, factors, fp, fret, status>>

\* lines 34-37: one test of `while n % q == 0` and, if it holds, one body
WhileStep ==
    /\ fpc = "while"
    /\ status = "running"
    /\ IF fn % fp = 0
       THEN IF counter = U8Max /\ overflow_checks
            THEN \* `counter += 1` on a u8 holding 255
                 /\ status' = "panicked"
                 /\ fpc' = "panic"
                 /\ UNCHANGED <<fn, counter>>
            ELSE /\ counter' = (counter + 1) % (U8Max + 1)
                 /\ fn' = fn \div fp
                 /\ UNCHANGED <<fpc, status>>
       ELSE /\ fpc' = "pushed"
            /\ UNCHANGED <<fn, counter, status>>
    /\ UNCHANGED <<fin, factors, fp, fret>>

\* AfterWhile with `if counter >= 0`: a pair is pushed for every divisor tried
AfterWhile_PushAlways ==
    /\ fpc = "pushed"
    /\ status = "running"
    /\ factors' = Append(factors, <<fp, counter>>)
    /\ IF fn = 1
       THEN /\ fpc' = "ret"
            /\ UNCHANGED fp
       ELSE /\ fp' = fp + 2
            /\ fpc' = "for"
    /\ UNCHANGED <<fin, fn, counter, fret, status>>

\* lines 39-45: push the pair, leave the loop once the residual is 1
AfterWhile ==
    /\ fpc = "pushed"
    /\ status = "running"
    /\ factors' = IF counter > 0 THEN Append(factors, <<fp, counter>>) ELSE factors
    /\ IF fn = 1
       THEN /\ fpc' = "ret"
            /\ UNCHANGED fp
       ELSE /\ fp' = fp + 2
            /\ fpc' = "for"
    /\ UNCHANGED <<fin, fn, counter, fret, status>>

\* lines 48-52
FactorReturn ==
    /\ fpc = "ret"
    /\ status = "running"
    /\ fret' = IF fn = 1 THEN Some(factors) ELSE None
    /\ fpc' = "done"
    /\ UNCHANGED <<fin, fn, factors, fp, counter, status>>

FactorStep ==
    /\ \/ StripTwo
       \/ ForHead
       \/ WhileStep
       \/ AfterWhile
       \/ FactorReturn
    /\ UNCHANGED <<overflow_checks, crtVars, permVars, iterVars>>

----------------------------------------------------------------------------
(* crt.rs: chinese_remainder and mod_inverse (src/src/crt.rs:1-36).        *)

\* i128 `a * b` and `a + b`: with the checks on an overflow unwinds, without
\* them the result wraps
WideMul(a, b, checks) ==
    IF InWide(a * b) THEN Returned(a * b)
    ELSE IF checks THEN Panic
    ELSE Returned(WrapWide(a * b))

WideAdd(a, b, checks) ==
    IF InWide(a + b) THEN Returned(a + b)
    ELSE IF checks THEN Panic
    ELSE Returned(WrapWide(a + b))

\* u64::checked_mul
CheckedMul(a, b) == IF a * b > WordMax THEN None ELSE Some(a * b)

\* line 6: moduli.iter().try_fold(1u64, |a, &b| a.checked_mul(b)) from the
\* i-th modulus on; acc is the Option the fold has reached
RECURSIVE TryFoldProduct(_, _, _)
TryFoldProduct(moduli, i, acc) ==
    IF ~acc.some \/ i > Len(moduli) THEN acc
    ELSE TryFoldProduct(moduli, i + 1, CheckedMul(acc.v, moduli[i]))

\* lines 25-29: the extended-Euclid loop on mn = (mn0, mn1), xy = (xy0, xy1)
RECURSIVE EuclidLoop(_, _, _, _)
EuclidLoop(mn0, mn1, xy0, xy1) ==
    IF mn1 = 0 THEN <<mn0, xy0>>
    ELSE EuclidLoop(mn1, mn0 - TruncDiv(mn0, mn1) * mn1,
                    xy1, xy0 - TruncDiv(mn0, mn1) * xy1)

\* lines 31-35, on the pair (mn.0, xy.0) the loop ends with
InverseFrom(e, m) == IF e[1] > 1 THEN None ELSE Some(TruncRem(e[2] + m, m))

\* lines 19-36
mod_inverse(a, m) == InverseFrom(EuclidLoop(m, a, 0, 1), m)

\* `t * b` and `a + t` on the outcome t of the multiplication before
ThenMul(t, b, checks) == IF t.panic THEN Panic ELSE WideMul(t.ret, b, checks)
ThenAdd(a, t, checks) == IF t.panic THEN Panic ELSE WideAdd(a, t.ret, checks)
SomeOf(o) == IF o.panic THEN Panic ELSE Returned(Some(o.ret))

\* lines 12-13: `let inverse = mod_inverse(..)?; result += remainder *
\* partial_product * inverse`, given what mod_inverse returned
AddTerm(result, remainder, partial_product, inverse, checks) ==
    IF ~inverse.some THEN Returned(None)
    ELSE SomeOf(ThenAdd(result,
                        ThenMul(WideMul(remainder, partial_product, checks),
                                inverse.v, checks),
                        checks))

\* lines 9-14: the loop over remainders.iter().zip(moduli), from pair i on;
\* CrtNext goes on from the outcome acc of pair i
RECURSIVE CrtLoop(_, _, _, _, _, _)
RECURSIVE CrtNext(_, _, _, _, _, _)
CrtLoop(remainders, moduli, product, i, result, checks) ==
    IF i > Len(remainders) \/ i > Len(moduli) THEN Returned(Some(result))
    ELSE IF moduli[i] = 0 THEN Panic   \* product_of_moduli / modulus: division by zero
    ELSE CrtNext(remainders, moduli, product, i,
                 AddTerm(result, remainders[i], TruncDiv(product, moduli[i]),
                         mod_inverse(TruncDiv(product, moduli[i]), moduli[i]), checks),
                 checks)

CrtNext(remainders, moduli, product, i, acc, checks) ==
    IF acc.panic THEN Panic
    ELSE IF ~acc.ret.some THEN Returned(None)
    ELSE CrtLoop(remainders, moduli, product, i + 1, acc.ret.v, checks)

\* line 16: Some((result % product_of_moduli) as u64), on the loop's outcome
CrtResult(r, product) ==
    IF r.panic THEN Panic
    ELSE IF ~r.ret.some THEN Returned(None)
    ELSE IF product = 0 THEN Panic   \* remainder by zero
    ELSE Returned(Some(TruncRem(r.ret.v, product) % WordMod))

\* lines 6-16, given the Option the product of the moduli came to
CrtWithProduct(remainders, moduli, product_of_moduli, checks) ==
    IF ~product_of_moduli.some THEN Returned(None)
    ELSE CrtResult(CrtLoop(remainders, moduli, product_of_moduli.v, 1, 0, checks),
                   product_of_moduli.v)

\* lines 1-17
chinese_remainder(remainders, moduli, checks) ==
    IF Len(remainders) # Len(moduli) THEN Returned(None)
    ELSE CrtWithProduct(remainders, moduli, TryFoldProduct(moduli, 1, Some(1)), checks)

\* the arguments the combiner is called with
MaxCrtLen == 3
MaxModulus == 16
CrtRemainders == {0, 2, 3, WordMax}

RECURSIVE SeqsOfLen(_, _)
SeqsOfLen(S, n) ==
    IF n = 0 THEN {<<>>}
    ELSE {Append(s, x) : s \in SeqsOfLen(S, n - 1), x \in S}

SeqsUpTo(S, n) == UNION {SeqsOfLen(S, k) : k \in 0..n}

NotCalled == [called |-> FALSE]

CrtInit ==
    /\ crt_args \in [remainders : SeqsUpTo(CrtRemainders, MaxCrtLen),
                     moduli : SeqsUpTo(0..MaxModulus, MaxCrtLen)]
    /\ crt_ret = NotCalled

\* what the thread is after a call with outcome out
Finish(out) == status' = IF out.panic THEN "panicked" ELSE "running"

CrtCall ==
    /\ crt_ret = NotCalled
    /\ crt_ret' = [called |-> TRUE,
                   out |-> chinese_remainder(crt_args.remainders, crt_args.moduli,
                                             overflow_checks)]
    /\ Finish(crt_ret'.out)
    /\ UNCHANGED <<overflow_checks, crt_args, factorVars, permVars, iterVars>>

----------------------------------------------------------------------------
(* FactoredInteger::new as a function of n >= 1 (src/src/lib.rs:21-53).    *)

\* lines 33-37: `while n % q == 0 { counter += 1; n /= q; }` for n >= 1
RECURSIVE TrialDivide(_, _, _)
TrialDivide(n, q, cnt) ==
    IF n % q = 0 THEN TrialDivide(n \div q, q, cnt + 1) ELSE <<n, cnt>>

\* lines 39-41: the pair pushed when the counter is positive, d = (n, counter)
\* being what the while loop ended with
Pushed(st, p, d) ==
    <<d[1], IF d[2] > 0 THEN Append(st[2], <<p, d[2]>>) ELSE st[2]>>

\* lines 31-41: one pass of the for loop, on st = (n, factors) with divisor p
TrialOne(st, p) == Pushed(st, p, TrialDivide(st[1], p, 0))

\* lines 30-46: the passes for the divisors 3 + 2 * lo, .., 3 + 2 * hi, left
\* by `break` once n is 1 (the range is halved to keep the evaluation
\* shallow; TrialRest goes on after the lower half)
RECURSIVE TrialRange(_, _, _)
RECURSIVE TrialRest(_, _, _)
TrialRange(st, lo, hi) ==
    IF lo = hi THEN TrialOne(st, 3 + 2 * lo)
    ELSE TrialRest(TrialRange(st, lo, (lo + hi) \div 2), (lo + hi) \div 2 + 1, hi)

TrialRest(st, lo, hi) == IF st[1] = 1 THEN st ELSE TrialRange(st, lo, hi)

\* lines 24-28: (n, factors) after the power of two is stripped
StrippedTwo(n, pow2) ==
    IF pow2 # 0 THEN <<Shr(n, pow2), <<(<<2, pow2>>)>> >> ELSE <<n, <<>> >>

\* lines 48-52
FactorResult(st) == IF st[1] = 1 THEN Some(st[2]) ELSE None

FactoredInteger_new(n) ==
    FactorResult(TrialRange(StrippedTwo(n, TrailingZeros(n)), 0, (U8Max - 4) \div 2))

\* what a call of FactoredInteger::new(n) does: for n = 0 the shift by 64
\* unwinds when overflow is checked, and otherwise 0 % q == 0 holds forever
FactorOutcome(n, checks) ==
    IF n # 0 THEN "returns" ELSE IF checks THEN "panics" ELSE "hangs"

----------------------------------------------------------------------------
(* RandomPermutation (src/src/lib.rs:65-141).                              *)

\* (0..n).collect::<Vec<_>>()
Range0(n) == [i \in 1..n |-> i - 1]

\* vec.swap(a, b)
Swap(vec, a, b) == [vec EXCEPT ![a + 1] = vec[b + 1], ![b + 1] = vec[a + 1]]

\* `for a in 0..len { let b = rng.random_range(a..len); vec.swap(a, b); }`
\* from position a on; draws[a + 1] is what random_range returned for a
RECURSIVE Shuffle(_, _, _)
Shuffle(vec, draws, a) ==
    IF a >= Len(vec) THEN vec
    ELSE Shuffle(Swap(vec, a, draws[a + 1]), draws, a + 1)

\* the size p^k of the i-th sub-permutation (i from 1) under `order`
PrimePower(facs, order, i) ==
    LET pr == facs[order[i] + 1] IN Pow(pr[1], pr[2])

\* the number of draws taken before the i-th sub-permutation is shuffled
RECURSIVE DrawsBefore(_, _, _)
DrawsBefore(facs, order, i) ==
    IF i = 1 THEN Len(facs)
    ELSE DrawsBefore(facs, order, i - 1) + PrimePower(facs, order, i - 1)

\* lines 86-107, given the prime powers `factors` and the shuffled `order`
SubPerms(facs, order, rng) ==
    [i \in 1..Len(facs) |->
        Shuffle(Range0(PrimePower(facs, order, i)),
                SubSeq(rng, DrawsBefore(facs, order, i) + 1,
                       DrawsBefore(facs, order, i) + PrimePower(facs, order, i)),
                0)]

\* lines 82-107, given what FactoredInteger::new(n) returned
WithFactors(n, factored_n, rng) ==
    IF ~factored_n.some THEN None
    ELSE Some([num_points |-> n,
               sub_perms |-> SubPerms(factored_n.v,
                                      Shuffle(Range0(Len(factored_n.v)),
                                              SubSeq(rng, 1, Len(factored_n.v)), 0),
                                      rng)])

\* lines 78-108; rng is the sequence of values random_range returns, in order
with_rng(n, rng) == WithFactors(n, FactoredInteger_new(n), rng)

\* the values random_range(a..len) can return for a = from, from + 1, ..
RECURSIVE DrawsFrom(_, _)
DrawsFrom(from, len) ==
    IF from >= len THEN {<<>>}
    ELSE {<<b>> \o r : b \in from..(len - 1), r \in DrawsFrom(from + 1, len)}

RECURSIVE ShuffleDraws(_, _, _)
ShuffleDraws(facs, order, i) ==
    IF i > Len(facs) THEN {<<>>}
    ELSE {d \o r : d \in DrawsFrom(0, PrimePower(facs, order, i)),
                   r \in ShuffleDraws(facs, order, i + 1)}

\* the sequences of draws taken when the factorization is f
StreamsFor(f) ==
    IF ~f.some THEN {<<>>}
    ELSE UNION {{od \o pd : pd \in ShuffleDraws(f.v, Shuffle(Range0(Len(f.v)), od, 0), 1)} :
                od \in DrawsFrom(0, Len(f.v))}

\* every sequence of draws a call with_rng(n, rng) can take from the RNG
RngStreams(n) == StreamsFor(FactoredInteger_new(n))

num_points(perm) == perm.num_points

\* Remainders with `n /= pk` before the push: the digit is taken from the quotient
RECURSIVE Remainders_DivideFirst(_, _, _, _)
Remainders_DivideFirst(sub_perms, i, n, rem) ==
    IF i > Len(sub_perms) THEN rem
    ELSE LET pk == Len(sub_perms[i])
         IN  Remainders_DivideFirst(sub_perms, i + 1, n \div pk,
                                    Append(rem, sub_perms[i][((n \div pk) % pk) + 1]))

\* lines 126-131: the fold over sub_perms from the i-th on, with the running n
RECURSIVE Remainders(_, _, _, _)
Remainders(sub_perms, i, n, rem) ==
    IF i > Len(sub_perms) THEN rem
    ELSE LET pk == Len(sub_perms[i])
         IN  Remainders(sub_perms, i + 1, n \div pk, Append(rem, sub_perms[i][(n % pk) + 1]))

\* lines 133-137: the moduli p^k, the sizes of the sub-permutations
Moduli(sub_perms) == [i \in 1..Len(sub_perms) |-> Len(sub_perms[i])]

\* line 139: `.unwrap()` on what the combiner returned unwinds on None
Unwrap(c) ==
    IF c.panic THEN Panic
    ELSE IF ~c.ret.some THEN Panic
    ELSE Returned(Some(c.ret.v))

\* nth with the bound test `n > self.num_points`
nth_OffByOne(perm, n, checks) ==
    IF n > perm.num_points THEN Returned(None)
    ELSE Unwrap(chinese_remainder(Remainders(perm.sub_perms, 1, n, <<>>),
                                  Moduli(perm.sub_perms), checks))

\* lines 121-140
nth(perm, n, checks) ==
    IF n >= perm.num_points THEN Returned(None)
    ELSE Unwrap(chinese_remainder(Remainders(perm.sub_perms, 1, n, <<>>),
                                  Moduli(perm.sub_perms), checks))

----------------------------------------------------------------------------
(* Inverse (src/src/lib.rs:143-163).                                       *)

\* perm.iter().position(|&a| a == x): the first index holding x
Position(vec, x) ==
    IF \E i \in 1..Len(vec) : vec[i] = x
    THEN Some((CHOOSE i \in 1..Len(vec) :
                  vec[i] = x /\ \A j \in 1..(i - 1) : vec[j] # x) - 1)
    ELSE None

\* a u64 result: an overflow unwinds with the checks on and wraps without
WordArith(x, checks) ==
    IF x <= WordMax THEN Returned(x)
    ELSE IF checks THEN Panic
    ELSE Returned(x % WordMod)

\* `m + b` on the outcome m of the multiplication before
ThenWordAdd(m, b, checks) == IF m.panic THEN Panic ELSE WordArith(m.ret + b, checks)

\* lines 157-159: `idx * pk + pos`, pos being what `position` found; its
\* unwrap unwinds on None
FoldStep(idx, pk, pos, checks) ==
    IF ~pos.some THEN Panic
    ELSE ThenWordAdd(WordArith(idx * pk, checks), pos.v, checks)

\* lines 156-160: the fold over sub_perms in reverse, from the i-th down;
\* InverseNext goes on from the outcome a of the i-th step
RECURSIVE InverseFold(_, _, _, _, _)
RECURSIVE InverseNext(_, _, _, _, _)
InverseFold(sub_perms, i, n, idx, checks) ==
    IF i < 1 THEN Returned(idx)
    ELSE InverseNext(sub_perms, i, n,
                     FoldStep(idx, Len(sub_perms[i]),
                              Position(sub_perms[i], n % Len(sub_perms[i])), checks),
                     checks)

InverseNext(sub_perms, i, n, a, checks) ==
    IF a.panic THEN Panic ELSE InverseFold(sub_perms, i - 1, n, a.ret, checks)

\* the fold of Inverse::nth without `.rev()`: sub_perms in storage order
RECURSIVE ForwardFold(_, _, _, _, _)
ForwardFold(sub_perms, i, n, idx, checks) ==
    IF i > Len(sub_perms) THEN Returned(idx)
    ELSE LET pk == Len(sub_perms[i])
             pos == Position(sub_perms[i], n % pk)
         IN  IF ~pos.some THEN Panic
             ELSE ForwardFold(sub_perms, i + 1, n, (idx * pk + pos.v) % WordMod, checks)

inverse_nth_NoRev(perm, n, checks) ==
    IF n >= num_points(perm) THEN Returned(None)
    ELSE SomeOf(ForwardFold(perm.sub_perms, 1, n, 0, checks))

\* lines 152-162
inverse_nth(perm, n, checks) ==
    IF n >= num_points(perm) THEN Returned(None)
    ELSE SomeOf(InverseFold(perm.sub_perms, Len(perm.sub_perms), n, 0, checks))

----------------------------------------------------------------------------
(* Composition (src/src/lib.rs:185-215).                                   *)

\* Composition::new with `.any(..)` for `.all(..)`
Composition_new_Any(perms) ==
    IF Len(perms) = 0 THEN None
    ELSE IF ~(\E i \in 1..Len(perms) : num_points(perms[i]) = num_points(perms[1]))
    THEN None
    ELSE Some([perms |-> perms])

\* lines 191-204
Composition_new(perms) ==
    IF Len(perms) = 0 THEN None
    ELSE IF ~(\A i \in 1..Len(perms) : num_points(perms[i]) = num_points(perms[1]))
    THEN None
    ELSE Some([perms |-> perms])

\* lines 208-210
composition_num_points(comp) == num_points(comp.perms[1])

\* line 213: self.perms.iter().try_fold(n, |n, perm| perm.nth(n)), from the
\* i-th on; TryFoldNext goes on from the outcome r of the i-th lookup
RECURSIVE TryFoldNth(_, _, _, _)
RECURSIVE TryFoldNext(_, _, _, _)
TryFoldNth(perms, i, n, checks) ==
    IF i > Len(perms) THEN Returned(Some(n))
    ELSE TryFoldNext(perms, i, nth(perms[i], n, checks), checks)

TryFoldNext(perms, i, r, checks) ==
    IF r.panic THEN Panic
    ELSE IF ~r.ret.some THEN Returned(None)
    ELSE TryFoldNth(perms, i + 1, r.ret.v, checks)

\* Composition::nth threading the index through the permutations last to first
RECURSIVE TryFoldNthRev(_, _, _, _)
TryFoldNthRev(perms, i, n, checks) ==
    IF i < 1 THEN Returned(Some(n))
    ELSE LET r == nth(perms[i], n, checks)
         IN  IF r.panic THEN Panic
             ELSE IF ~r.ret.some THEN Returned(None)
             ELSE TryFoldNthRev(perms, i - 1, r.ret.v, checks)

composition_nth_Reversed(comp, n, checks) == TryFoldNthRev(comp.perms, Len(comp.perms), n, checks)

\* lines 212-214
composition_nth(comp, n, checks) == TryFoldNth(comp.perms, 1, n, checks)

----------------------------------------------------------------------------
(* The caller: it builds the permutations p1 and p2 and then makes one     *)
(* call on them, on their inverses or on a composition over a slice of     *)
(* them.  The calls change nothing in the permutations, so one call per    *)
(* behaviour reaches every pair of a pool and a call.                      *)

Slots == {"p1", "p2"}
\* the domain sizes p1 and p2 are built with when both are built
Sizes == {0, 1, 2, 3, 6}
\* the domain sizes p1 is built with when it is the only permutation
LookupSizes == {0, 1, 2, 3, 4, 6, 12}
\* the arguments of lookups: every index of the largest permutation built,
\* the two values past its end, and u64::MAX
MaxPoints ==
    LET built == {pool[s].v.num_points : s \in {t \in Slots : pool[t].some}}
    IN  IF built = {} THEN 0 ELSE CHOOSE m \in built : \A o \in built : o <= m
Args == (0..(MaxPoints + 1)) \cup {WordMax}
\* the longest slice a Composition is built over
MaxSlice == 2

PermInit ==
    /\ pool = [s \in Slots |-> None]
    /\ last = NotCalled

\* let p = RandomPermutation::with_rng(n, &mut rng)
WithRng(slot, sizes) ==
    /\ status = "running"
    /\ ~pool[slot].some
    /\ last = NotCalled
    /\ \E n \in sizes :
         LET o == FactorOutcome(n, overflow_checks)
         IN  IF o = "returns"
             THEN \E rng \in RngStreams(n) :
                    /\ pool' = [pool EXCEPT ![slot] = with_rng(n, rng)]
                    /\ UNCHANGED status
             ELSE /\ status' = IF o = "panics" THEN "panicked" ELSE "hung"
                  /\ UNCHANGED pool
    /\ UNCHANGED <<last, overflow_checks, factorVars, crtVars, iterVars>>

\* the caller's record of the call it made, and what the thread is after it
Called(op, on, arg, out) ==
    /\ last' = [called |-> TRUE, op |-> op, on |-> on, arg |-> arg, out |-> out]
    /\ Finish(out)

\* p.nth(x)
CallNth(slot, x) ==
    /\ status = "running"
    /\ last = NotCalled
    /\ pool[slot].some
    /\ Called("nth", <<slot>>, x, nth(pool[slot].v, x, overflow_checks))
    /\ UNCHANGED <<pool, overflow_checks, factorVars, crtVars, iterVars>>

\* p.inverse().nth(x)
CallInverseNth(slot, x) ==
    /\ status = "running"
    /\ last = NotCalled
    /\ pool[slot].some
    /\ Called("inverse_nth", <<slot>>, x, inverse_nth(pool[slot].v, x, overflow_checks))
    /\ UNCHANGED <<pool, overflow_checks, factorVars, crtVars, iterVars>>

\* the slices of built permutations a Composition can be given
Slices == {sl \in SeqsUpTo(Slots, MaxSlice) : \A i \in 1..Len(sl) : pool[sl[i]].some}
PermsOf(sl) == [i \in 1..Len(sl) |-> pool[sl[i]].v]

\* Composition::new(&v)
CallCompositionNew(sl) ==
    /\ status = "running"
    /\ last = NotCalled
    /\ last' = [called |-> TRUE, op |-> "Composition::new", on |-> sl, arg |-> 0,
                out |-> Returned(Composition_new(PermsOf(sl)))]
    /\ UNCHANGED <<pool, status, overflow_checks, factorVars, crtVars, iterVars>>

\* Composition::new(&v).unwrap().nth(x)
CallCompositionNth(sl, x) ==
    /\ status = "running"
    /\ last = NotCalled
    /\ Composition_new(PermsOf(sl)).some
    /\ Called("composition_nth", sl, x,
              composition_nth(Composition_new(PermsOf(sl)).v, x, overflow_checks))
    /\ UNCHANGED <<pool, overflow_checks, factorVars, crtVars, iterVars>>

Next ==
    \/ WithRng("p1", Sizes)
    \/ pool["p1"].some /\ WithRng("p2", Sizes)
    \/ \E slot \in Slots, x \in Args : CallNth(slot, x)
    \/ \E slot \in Slots, x \in Args : CallInverseNth(slot, x)
    \/ \E sl \in Slices : CallCompositionNew(sl)
    \/ \E sl \in Slices, x \in Args : CallCompositionNth(sl, x)

\* one permutation, its lookup and its inverse lookup
NextLookup ==
    \/ WithRng("p1", LookupSizes)
    \/ \E x \in Args : CallNth("p1", x)
    \/ \E x \in Args : CallInverseNth("p1", x)

----------------------------------------------------------------------------
(* PermutationIter (src/src/lib.rs:60-62, 165-183) over p1 or p1.inverse(). *)

IterIds == {"it1", "it2"}
\* the domain sizes p1 is built with when it is iterated over
IterSizes == {1, 2, 3}
\* the arguments of the skip-ahead: 0..MaxSkip and usize::MAX
MaxSkip == 1
Skips == (0..MaxSkip) \cup {WordMax}
\* the number of next and skip-ahead calls in a behaviour
MaxCalls == 5

IterInit == iters = [i \in IterIds |-> None]

\* self.perm.nth(x) for the Permutation the cursor borrows
Lookup(target, x, checks) ==
    IF target = "base" THEN nth(pool["p1"].v, x, checks)
    ELSE inverse_nth(pool["p1"].v, x, checks)

\* lines 60-62: PermutationIter { perm: self, idx: 0 }
iter(target) ==
    [target |-> target, idx |-> 0,
     \* what the caller has done with the cursor so far, and its last call
     run |-> [kind |-> "fresh"], calls |-> 0,
     op |-> "iter", k |-> 0, before |-> 0, out |-> Returned(None)]

CallsMade ==
    (IF iters["it1"].some THEN iters["it1"].v.calls ELSE 0)
    + (IF iters["it2"].some THEN iters["it2"].v.calls ELSE 0)

\* the caller's record of its calls: only `next` so far (with what they
\* returned), only skip-aheads by one k so far (with their number), or a mix
RunAfterNext(run, out) ==
    IF run.kind = "fresh" THEN [kind |-> "next", outs |-> <<out>>]
    ELSE IF run.kind = "next" THEN [kind |-> "next", outs |-> Append(run.outs, out)]
    ELSE [kind |-> "mixed"]

RunAfterSkip(run, k) ==
    IF run.kind = "fresh" THEN [kind |-> "skip", k |-> k, j |-> 1]
    ELSE IF run.kind = "skip" /\ run.k = k THEN [kind |-> "skip", k |-> k, j |-> run.j + 1]
    ELSE [kind |-> "mixed"]

\* next with the increment before the lookup
next_IncrementFirst(it, checks) ==
    LET sum == WordArith(it.idx + 1, checks)
        a == IF sum.panic THEN Panic ELSE Lookup(it.target, sum.ret, checks)
        out == IF a.panic \/ sum.panic THEN Panic ELSE a
    IN  [it EXCEPT !.idx = IF out.panic THEN it.idx ELSE sum.ret,
                   !.run = RunAfterNext(it.run, out),
                   !.calls = it.calls + 1,
                   !.op = "next", !.k = 1, !.before = it.idx, !.out = out]

\* the cursor after a call op(k) that left the index at idx and came to out
Moved(it, op, k, idx, out) ==
    [it EXCEPT !.idx = idx,
               !.run = IF op = "next" THEN RunAfterNext(it.run, out)
                       ELSE RunAfterSkip(it.run, k),
               !.calls = it.calls + 1,
               !.op = op, !.k = k, !.before = it.idx, !.out = out]

\* lines 175-176: `self.idx += 1; a`, a being what the lookup came to
AfterLookup(it, a, sum) ==
    IF a.panic \/ sum.panic THEN Moved(it, "next", 1, it.idx, Panic)
    ELSE Moved(it, "next", 1, sum.ret, a)

\* lines 173-177: let a = self.perm.nth(self.idx); self.idx += 1; a
next(it, checks) ==
    AfterLookup(it, Lookup(it.target, it.idx, checks), WordArith(it.idx + 1, checks))

\* line 181: self.perm.nth(self.idx), sum being what `self.idx += n` came to
AfterAdd(it, n, sum, checks) ==
    IF sum.panic THEN Moved(it, "nth", n, it.idx, Panic)
    ELSE Moved(it, "nth", n, sum.ret, Lookup(it.target, sum.ret, checks))

\* lines 179-182: self.idx += n as u64; self.perm.nth(self.idx)
iter_nth(it, n, checks) == AfterAdd(it, n, WordArith(it.idx + n, checks), checks)

\* let mut iter = p.iter()  or  p.inverse().iter()
IterNew(i, target) ==
    /\ status = "running"
    /\ pool["p1"].some
    /\ ~iters[i].some
    /\ iters' = [iters EXCEPT ![i] = Some(iter(target))]
    /\ UNCHANGED <<status, pool, last, overflow_checks, factorVars, crtVars>>

\* the cursor i after a call that left it as it
Stepped(i, it) ==
    /\ iters' = [iters EXCEPT ![i] = Some(it)]
    /\ Finish(it.out)

\* iter.next()
IterNext(i) ==
    /\ status = "running"
    /\ iters[i].some
    /\ CallsMade < MaxCalls
    /\ Stepped(i, next(iters[i].v, overflow_checks))
    /\ UNCHANGED <<pool, last, overflow_checks, factorVars, crtVars>>

\* iter.nth(k)
IterSkip(i, k) ==
    /\ status = "running"
    /\ iters[i].some
    /\ CallsMade < MaxCalls
    /\ Stepped(i, iter_nth(iters[i].v, k, overflow_checks))
    /\ UNCHANGED <<pool, last, overflow_checks, factorVars, crtVars>>

NextIter ==
    \/ WithRng("p1", IterSizes)
    \/ \E i \in IterIds, target \in {"base", "inverse"} : IterNew(i, target)
    \/ \E i \in IterIds : IterNext(i)
    \/ \E i \in IterIds, k \in Skips : IterSkip(i, k)

\* the parts of the state a specification does not use
FactorIdle ==
    /\ fin = 1 /\ fn = 1 /\ factors = <<>> /\ fp = 3 /\ counter = 0
    /\ fpc = "idle" /\ fret = None
CrtIdle == crt_args = [remainders |-> <<>>, moduli |-> <<>>] /\ crt_ret = NotCalled
PermIdle == PermInit
IterIdle == IterInit

SpecFactorInit ==
    /\ overflow_checks \in BOOLEAN
    /\ status = "running"
    /\ FactorInit /\ CrtIdle /\ PermIdle /\ IterIdle

SpecFactor == SpecFactorInit /\ [][FactorStep]_vars

SpecCrtInit ==
    /\ overflow_checks \in BOOLEAN
    /\ status = "running"
    /\ CrtInit /\ FactorIdle /\ PermIdle /\ IterIdle

SpecCrt == SpecCrtInit /\ [][CrtCall]_vars

Init ==
    /\ overflow_checks \in BOOLEAN
    /\ status = "running"
    /\ PermInit /\ FactorIdle /\ CrtIdle /\ IterIdle

Spec == Init /\ [][Next]_vars

SpecLookup == Init /\ [][NextLookup]_vars

SpecIter == Init /\ [][NextIter]_vars

----------------------------------------------------------------------------
(* Arithmetic the properties are stated with, independent of the code.     *)

IsPrime(p) == p >= 2 /\ \A d \in 2..(p - 1) : p % d # 0

RECURSIVE Gcd(_, _)
Gcd(a, b) == IF b = 0 THEN a ELSE Gcd(b, a % b)

RECURSIVE ProductOfPowers(_, _)
ProductOfPowers(facs, i) ==
    IF i > Len(facs) THEN 1 ELSE Pow(facs[i][1], facs[i][2]) * ProductOfPowers(facs, i + 1)

RECURSIVE ProductOf(_, _)
ProductOf(seq, i) == IF i > Len(seq) THEN 1 ELSE seq[i] * ProductOf(seq, i + 1)

Built(slot) == pool[slot].some
P1 == pool["p1"].v

----------------------------------------------------------------------------
(* C4, C10: FactoredInteger::new, under SpecFactor.                        *)

HasLargePrimeFactor(n) == \E p \in (U8Max + 1)..n : IsPrime(p) /\ n % p = 0

WellFactored(facs, n) ==
    /\ \A i \in 1..Len(facs) :
         /\ IsPrime(facs[i][1])
         /\ facs[i][1] < U8Max + 1
         /\ facs[i][2] >= 1
         /\ facs[i][2] <= U64Bits - 1
    /\ \A i \in 1..(Len(facs) - 1) : facs[i][1] < facs[i + 1][1]
    /\ ProductOfPowers(facs, 1) = n

\* C4: for n >= 1 FactoredInteger::new(n) returns None exactly when n has a
\* prime factor >= 256; otherwise it returns pairs (prime, exponent) with
\* primes below 256 in strictly increasing order, exponents from 1 to 63, and
\* the product of the prime powers equal to n.  with_rng factors n through
\* the same function, whose one-step form agrees with the step-by-step run.
C4_Factorization ==
    (fpc = "done" /\ fin >= 1) =>
        /\ (fret = None) <=> HasLargePrimeFactor(fin)
        /\ fret.some => WellFactored(fret.v, fin)
        /\ fret = FactoredInteger_new(fin)

\* 360 = 2^3 * 3^2 * 5 has been factored
C4_Witness ==
    /\ fpc = "done" /\ fin = 360
    /\ fret = Some(<<(<<2, 3>>), (<<3, 2>>), (<<5, 1>>)>>)

\* C10: for every n, 0 included, the construction runs to its return without
\* an arithmetic fault (stated here as: no run of the factorizer unwinds).
C10_NoArithmeticFault == fpc # "panic"

----------------------------------------------------------------------------
(* C9: chinese_remainder, under SpecCrt.                                   *)

PairwiseCoprime(ms) ==
    \A i \in 1..Len(ms) : \A j \in 1..Len(ms) : i # j => Gcd(ms[i], ms[j]) = 1

\* C9: for equal-length inputs with pairwise coprime (positive) moduli whose
\* product M fits a word, and any word-sized remainders, the call returns
\* Some(x) with 0 <= x < M and x congruent to each remainder; it returns None
\* when the lengths differ or the product of the moduli overflows the word.
C9_CrtExact ==
    crt_ret.called =>
        LET rs == crt_args.remainders
            ms == crt_args.moduli
            M == ProductOf(ms, 1)
        IN  /\ Len(rs) # Len(ms) => crt_ret.out = Returned(None)
            /\ (/\ Len(rs) = Len(ms)
                /\ \A i \in 1..Len(ms) : ms[i] >= 1
                /\ PairwiseCoprime(ms)
                /\ M <= WordMax)
               => /\ ~crt_ret.out.panic
                  /\ crt_ret.out.ret.some
                  /\ crt_ret.out.ret.v >= 0
                  /\ crt_ret.out.ret.v < M
                  /\ \A i \in 1..Len(ms) : crt_ret.out.ret.v % ms[i] = rs[i] % ms[i]

----------------------------------------------------------------------------
(* C1, C2: one permutation and its inverse, under SpecLookup.              *)

InRange(out, n) == ~out.panic /\ out.ret.some /\ out.ret.v \in 0..(n - 1)

\* calls, the pairs <<index, outcome>> of the calls on 0..n-1, is the graph
\* of a bijection onto 0..n-1
IsBijection(calls, n) ==
    /\ \A c \in calls : InRange(c[2], n)
    /\ \A c \in calls : \A d \in calls : c[1] # d[1] => c[2].ret.v # d[2].ret.v
    /\ \A v \in 0..(n - 1) : \E c \in calls : c[2].ret.v = v

\* C1: nth restricted to [0, n) is a bijection onto [0, n): every index gives
\* Some(v) with v in [0, n), distinct indices give distinct values, and every
\* value of [0, n) is produced.
C1_NthBijection ==
    Built("p1") =>
        IsBijection({<<i, nth(P1, i, overflow_checks)>> : i \in 0..(num_points(P1) - 1)},
                    num_points(P1))

\* a lookup in a permutation of 12 = 4 * 3 points has returned a value
C1_Witness ==
    /\ last.called /\ last.op = "nth"
    /\ num_points(P1) = 12 /\ Len(P1.sub_perms) = 2
    /\ last.arg = 11 /\ ~last.out.panic /\ last.out.ret.some

\* fwd and inv, the pairs <<argument, outcome>> of the calls of p.nth and of
\* p.inverse().nth on 0..n-1, undo each other
RoundTrip(fwd, inv, n) ==
    /\ \A c \in fwd :
         /\ InRange(c[2], n)
         /\ <<c[2].ret.v, Returned(Some(c[1]))>> \in inv
    /\ \A d \in inv :
         /\ InRange(d[2], n)
         /\ <<d[2].ret.v, Returned(Some(d[1]))>> \in fwd

\* C2: with inv = p.inverse(), inv.nth(p.nth(i)) == Some(i) and
\* p.nth(inv.nth(v)) == Some(v) for all i and v in [0, num_points).
C2_InverseRoundTrip ==
    Built("p1") =>
        RoundTrip({<<i, nth(P1, i, overflow_checks)>> : i \in 0..(num_points(P1) - 1)},
                  {<<v, inverse_nth(P1, v, overflow_checks)>> : v \in 0..(num_points(P1) - 1)},
                  num_points(P1))

\* an inverse lookup in a permutation of 12 = 4 * 3 points has returned an
\* index other than the value looked up
C2_Witness ==
    /\ last.called /\ last.op = "inverse_nth"
    /\ num_points(P1) = 12 /\ Len(P1.sub_perms) = 2
    /\ ~last.out.panic /\ last.out.ret.some /\ last.out.ret.v # last.arg

----------------------------------------------------------------------------
(* C3, C5, C6: lookups on every variant and Composition, under Spec.       *)

\* num_points() of the variant the last call was made on
LastNumPoints ==
    IF last.op = "composition_nth"
    THEN composition_num_points(Composition_new(PermsOf(last.on)).v)
    ELSE num_points(pool[last.on[1]].v)

\* C3: on the base permutation, the Inverse view and the Composition view,
\* nth(x) returns without unwinding, and it returns None exactly when
\* x >= num_points(), u64::MAX included.
C3_NoneIffOutOfRange ==
    (last.called /\ last.op \in {"nth", "inverse_nth", "composition_nth"}) =>
        /\ ~last.out.panic
        /\ (last.out.ret = None) <=> (last.arg >= LastNumPoints)

\* a composition of two permutations of 6 points was asked for u64::MAX
C3_Witness ==
    /\ last.called /\ last.op = "composition_nth"
    /\ Len(last.on) = 2 /\ LastNumPoints = 6
    /\ last.arg = WordMax /\ last.out = Returned(None)

\* p_k.nth(.. p_2.nth(p_1.nth(x)) ..), None as soon as one step is None
RECURSIVE Chain(_, _, _)
Chain(perms, k, x) ==
    IF k = 0 THEN Some(x)
    ELSE LET inner == Chain(perms, k - 1, x)
         IN  IF ~inner.some THEN None
             ELSE nth(perms[k], inner.v, overflow_checks).ret

\* C5: Composition::nth(i) over [p1, .., pk] is pk.nth(.. p2.nth(p1.nth(i)) ..),
\* the permutations applied in sequence order, and None if any step is None.
C5_CompositionOrder ==
    (last.called /\ last.op = "composition_nth") =>
        /\ ~last.out.panic
        /\ last.out.ret = Chain(PermsOf(last.on), Len(last.on), last.arg)

\* the composition [p1, p2] of two permutations that do not commute at the
\* argument has returned a value
C5_Witness ==
    /\ last.called /\ last.op = "composition_nth" /\ last.on = <<"p1", "p2">>
    /\ ~last.out.panic /\ last.out.ret.some
    /\ last.out.ret # Chain(PermsOf(<<"p2", "p1">>), 2, last.arg)

\* C6: Composition::new(perms) is None exactly when perms is empty or some
\* element's num_points differs from the first's; otherwise the composition's
\* num_points() is the num_points of every element.
C6_CompositionNew ==
    (last.called /\ last.op = "Composition::new") =>
        LET perms == PermsOf(last.on)
            c == last.out.ret
        IN  /\ (c = None) <=>
                   \/ Len(perms) = 0
                   \/ \E i \in 1..Len(perms) : perms[i].num_points # perms[1].num_points
            /\ c.some =>
                   \A i \in 1..Len(perms) : composition_num_points(c.v) = perms[i].num_points

\* Composition::new over two permutations of different sizes has returned None
C6_Witness ==
    /\ last.called /\ last.op = "Composition::new" /\ last.on = <<"p1", "p2">>
    /\ num_points(P1) = 3 /\ num_points(pool["p2"].v) = 6
    /\ last.out.ret = None

----------------------------------------------------------------------------
(* C7, C8: PermutationIter, under SpecIter.                                *)

\* C7: on a cursor that has only been advanced with next, the calls have
\* returned Some(perm.nth(0)), Some(perm.nth(1)), .. in order, the call after
\* the n-th has returned None, and a cursor that has not been advanced is at
\* index 0 - whatever has been done with the other cursor over the permutation.
C7_NextSequence ==
    \A i \in IterIds :
        iters[i].some =>
            LET it == iters[i].v
                n == num_points(P1)
            IN  /\ it.run.kind = "fresh" => it.idx = 0
                /\ it.run.kind = "next" =>
                     \A m \in 1..Len(it.run.outs) :
                         /\ m <= n =>
                              /\ it.run.outs[m] = Lookup(it.target, m - 1, overflow_checks)
                              /\ ~it.run.outs[m].panic
                              /\ it.run.outs[m].ret.some
                         /\ m = n + 1 => it.run.outs[m] = Returned(None)

\* the second cursor has run through a permutation of 3 points to its end
\* while the first cursor over the same permutation had moved elsewhere
C7_Witness ==
    /\ iters["it1"].some /\ iters["it2"].some
    /\ num_points(P1) = 3
    /\ iters["it1"].v.calls = 1 /\ iters["it1"].v.idx = 1
    /\ iters["it2"].v.run.kind = "next" /\ Len(iters["it2"].v.run.outs) = 4

\* C8: a skip-ahead nth(k) on a cursor at c returns perm.nth(c + k) and leaves
\* the cursor at c + k; it returns None whenever c + k >= num_points; the j-th
\* of j skip-aheads by k on a fresh cursor returns perm.nth(j * k).
C8_SkipAhead ==
    \A i \in IterIds :
        (iters[i].some /\ iters[i].v.op = "nth") =>
            LET it == iters[i].v
                n == num_points(P1)
            IN  /\ ~it.out.panic
                /\ it.idx = it.before + it.k
                /\ it.before + it.k >= n => it.out = Returned(None)
                /\ it.before + it.k < n =>
                     it.out = Lookup(it.target, it.before + it.k, overflow_checks)
                /\ (it.run.kind = "skip" /\ it.run.j * it.k < n) =>
                     it.out = Lookup(it.target, it.run.j * it.k, overflow_checks)

====
